---------------------------- MODULE Spec2Model ----------------------------
(***************************************************************************)
(* Model of the Android guest analyzer (analyzer/android/analyzer.py):     *)
(* the __main__ block, Analyzer.run() and the plugin callbacks it drives.  *)
(* One run of the process is one behaviour.  Plugin callbacks (driver and  *)
(* auxiliary modules), prepare() and time.sleep() are the environment:     *)
(* each call draws its outcome (a return value or a raised exception)      *)
(* from a small set.                                                       *)
(***************************************************************************)
EXTENDS Integers, Sequences, FiniteSets, TLC

\* ------------------------------------------------------------------ bounds
\* Largest configured timeout explored (config.timeout ranges over 1..MaxTimeout).
MaxTimeout == 3
\* Largest number of auxiliary classes visible in Auxiliary.__subclasses__().
MaxAux == 2

\* ------------------------------------------------------------ input domains
\* config.package: absent ("None") or one of the names below.
NoPackage == "None"
PackageNames == {"apk", "default_browser"}
Categories == {"file", "url"}
FileTypes == {"Zip archive data"}
\* Messages carried by exceptions raised from plugin code: a string is a
\* sequence of fragments, the empty string is the empty sequence.
Msgs == {<< >>, <<"boom">>}

\* ---------------------------------------------------------- option strings
\* Strings handled by get_options() are sequences of one-character strings.
\* config.options is absent (None) or a string.
NoOptions == [present |-> FALSE, text |-> << >>]
Text(s) == [present |-> TRUE, text |-> s]
\* The example of the options format: a=1, b = 2 ,bad
ExampleOptions ==
    <<"a", "=", "1", ",", " ", "b", " ", "=", " ", "2", " ", ",",
      "b", "a", "d">>
\* The option string of a whole analysis run: one well-formed field and one
\* malformed field, a=1,a
RunOptions == <<"a", "=", "1", ",", "a">>
\* Longest option string enumerated, and the characters it is made of.
MaxOptLen == 4
OptChars == {"a", "1", " ", ",", "="}
OptStrings == UNION {[1 .. n -> OptChars] : n \in 0 .. MaxOptLen}

\* {} and d[key] = value
EmptyDict == << >>
DictSet(d, key, value) ==
    [k \in DOMAIN d \cup {key} |-> IF k = key THEN value ELSE d[k]]

\* Variant: only leading whitespace is removed.
RECURSIVE LStripOnly(_)
LStripOnly(s) ==
    IF s # << >> /\ Head(s) = " " THEN LStripOnly(Tail(s)) ELSE s

\* str.strip(): leading and trailing whitespace removed.
RECURSIVE Strip(_)
Strip(s) ==
    IF s = << >>
      THEN s
      ELSE IF Head(s) = " "
        THEN Strip(Tail(s))
        ELSE IF s[Len(s)] = " "
          THEN Strip(SubSeq(s, 1, Len(s) - 1))
          ELSE s

\* str.split(sep): the pieces between the separators, empty pieces kept.
\* The string is read left to right; `done` holds the pieces completed so
\* far and `piece` the one being read.
RECURSIVE SplitFrom(_, _, _, _)
SplitFrom(s, sep, done, piece) ==
    IF s = << >>
      THEN Append(done, piece)
      ELSE IF Head(s) = sep
        THEN SplitFrom(Tail(s), sep, Append(done, piece), << >>)
        ELSE SplitFrom(Tail(s), sep, done, Append(piece, Head(s)))

Split(s, sep) == SplitFrom(s, sep, << >>, << >>)

\* lines 52-61: the fields in order; `key, value = ...` raises ValueError
\* unless the split gives exactly two pieces, and the field is then dropped
\* with one warning.
RECURSIVE ParseFields(_, _)
ParseFields(fields, acc) ==
    IF fields = << >>
      THEN acc
      ELSE LET pieces == Split(Strip(Head(fields)), "=")
           IN  ParseFields(
                 Tail(fields),
                 IF Len(pieces) = 2
                   THEN [acc EXCEPT
                           !.options =
                             DictSet(@, Strip(pieces[1]), Strip(pieces[2]))]
                   ELSE [acc EXCEPT !.warnings = @ + 1])

\* Analyzer.get_options(), lines 34-63: the dict returned and the number of
\* warnings logged.
get_options(opts) ==
    IF opts.present /\ opts.text # << >>
      THEN ParseFields(Split(Strip(opts.text), ","),
                       [options |-> EmptyDict, warnings |-> 0])
      ELSE [options |-> EmptyDict, warnings |-> 0]

\* ------------------------------------------------------- exception objects
Exc(t, m) == [type |-> t, msg |-> m]
NoExc == Exc("None", << >>)
KeyboardInterrupt == Exc("KeyboardInterrupt", << >>)
NotImplementedError == Exc("NotImplementedError", << >>)

\* Exception classes deriving from Exception (so caught by `except Exception`).
\* KeyboardInterrupt derives from BaseException only.
ExceptionClasses ==
    {"Exception", "NotImplementedError", "AttributeError", "CuckooError",
     "CuckooPackageError", "UnboundLocalError"}

IsException(e) == e.type \in ExceptionClasses

\* str(e): the message the exception was constructed with.
Str(e) == e.msg

\* CuckooError(msg)
CuckooError(m) == Exc("CuckooError", m)

\* Reading the local `aux` of run() before any module() call has bound it.
UnboundAux ==
    Exc("UnboundLocalError",
        <<"local variable 'aux' referenced before assignment">>)

\* -------------------------------------------------------- message builders
\* "modules.packages.%s" % package
PackageName(package) == <<"modules.packages.", package>>

NoValidPackageMsg(file_type) ==
    <<"No valid package available for file type: ", file_type>>

\* Variant: the message leaves the attempted name out.
UnableToImportMsgNoName(package_name) ==
    <<"Unable to import package, does not exist.">>

UnableToImportMsg(package_name) ==
    <<"Unable to import package \"">> \o package_name
        \o <<"\", does not exist.">>

UnableToSelectMsg(package_name, e) ==
    <<"Unable to select package class (package=">> \o package_name
        \o <<"): ">> \o e

NoRunFunctionMsg(package_name) ==
    <<"The package \"">> \o package_name
        \o <<"\" doesn't contain a run function.">>

StartRaisedMsg(package_name, e) ==
    <<"The package \"">> \o package_name
        \o <<"\" start function raised an error: ">> \o Str(e)

StartUnhandledMsg(package_name, e) ==
    <<"The package \"">> \o package_name
        \o <<"\" start function encountered an unhandled exception: ">>
        \o Str(e)

KeyboardInterruptMsg == <<"Keyboard Interrupt">>

\* ------------------------------------------------------ callback outcomes
Return(v) == [type |-> "return", val |-> v]
Returned(o) == o.type = "return"

PrepareOutcomes ==
    {Return("None"), KeyboardInterrupt} \cup {Exc("Exception", m) : m \in Msgs}
ConstructOutcomes ==
    {Return("None"), KeyboardInterrupt} \cup {Exc("Exception", m) : m \in Msgs}
AuxConstructOutcomes ==
    {Return("None"), KeyboardInterrupt, Exc("Exception", <<"boom">>)}
AuxStartOutcomes ==
    {Return("None"), KeyboardInterrupt, NotImplementedError,
     Exc("Exception", <<"boom">>)}
AuxStopOutcomes == AuxStartOutcomes
PackStartOutcomes ==
    {Return("True"), KeyboardInterrupt, NotImplementedError}
        \cup {Exc("CuckooPackageError", m) : m \in Msgs}
        \cup {Exc("Exception", m) : m \in Msgs}
CheckOutcomes ==
    {Return("True"), Return("False"), KeyboardInterrupt,
     Exc("Exception", <<"boom">>)}
FinishOutcomes ==
    {Return("None"), KeyboardInterrupt, Exc("Exception", <<"boom">>)}
SleepOutcomes == {Return("None"), KeyboardInterrupt}

\* ------------------------------------------------------------------- state
VARIABLES
    pc,            \* position of the single thread of control
    config,        \* Config("analysis.conf"): package, category, timeout,
                   \* options
    options,       \* the dict get_options() returned (key -> value)
    warnings,      \* log.warning() calls made by get_options()
    package,       \* local package of run(), NoPackage until selected
    package_name,  \* local package_name of run()
    subclasses,    \* Auxiliary.__subclasses__(): <<1, ..., n>>
    idx,           \* position of the running for-loop (start or stop loop)
    aux,           \* local `aux` of run(): 0 while unbound, else the module
    aux_enabled,   \* local aux_enabled of run()
    time_counter,  \* local time_counter of run()
    pending,       \* what the poll loop's finally clause resumes afterwards
    exc,           \* the exception in flight / caught by __main__
    success,       \* __main__'s success
    error,         \* __main__'s error
    reported,      \* arguments of server.complete(), NoReport before the call
    \* observation of the calls made (history, not read by the program)
    nReport,       \* server.complete() calls
    nPackStart,    \* pack.start() calls
    startRes,      \* outcome of pack.start(): "none" before the call
    resolved,      \* driver resolution: "ok", or the error that failed it
    checks,        \* outcome type of every pack.check() call, in order
    nSleep,        \* time.sleep(1) calls
    nFinish,       \* pack.finish() calls
    auxStarts,     \* module -> aux.start() calls
    auxStops,      \* module -> aux.stop() calls
    auxCtorRes,    \* module -> outcome of module(), "none" before the call
    auxStartRes,   \* module -> outcome of aux.start(), "none" before the call
    stopRes,       \* outcome of every aux.stop() call, in order
    finishRes,     \* outcome of pack.finish(), "none" before the call
    exit_branch,   \* which break left the poll loop: "timeout" / "requested"
    last           \* the last call made: [op, who, res]

vars ==
    <<pc, config, options, warnings, package, package_name, subclasses, idx, aux, aux_enabled,
      time_counter, pending, exc, success, error, reported, nReport,
      nPackStart, startRes, resolved, checks, nSleep, nFinish, finishRes,
      auxStarts, auxCtorRes, auxStartRes, auxStops, stopRes, exit_branch, last>>

progVars ==
    <<options, package, package_name, subclasses, idx, aux, aux_enabled, time_counter, pending>>
histVars ==
    <<warnings, nPackStart, startRes, resolved, checks, nSleep, nFinish, finishRes,
      auxStarts, auxCtorRes, auxStartRes, auxStops, stopRes, exit_branch>>

NoReport == [sent |-> FALSE, success |-> FALSE, error |-> << >>]
Modules == 1 .. MaxAux
Call(op, who, o) ==
    [op |-> op, who |-> who,
     res |-> IF Returned(o) THEN o.val ELSE o.type]

\* An exception leaves run(): control reaches the except clauses of __main__.
Escape(e) ==
    /\ exc' = e
    /\ pc' = "main_except"

\* Variant: __main__ starts from success = True.
InitSuccessTrue ==
    /\ pc = "prepare"
    /\ config \in [package : PackageNames \cup {NoPackage},
                   category : Categories,
                   file_type : FileTypes,
                   options : {Text(RunOptions)},
                   timeout : 1 .. MaxTimeout]
    /\ options = EmptyDict
    /\ warnings = 0
    /\ package = NoPackage
    /\ package_name = << >>
    /\ subclasses = << >>
    /\ idx = 0
    /\ aux = 0
    /\ aux_enabled = << >>
    /\ time_counter = 0
    /\ pending = "none"
    /\ exc = NoExc
    /\ success = TRUE
    /\ error = << >>
    /\ reported = NoReport
    /\ nReport = 0
    /\ nPackStart = 0
    /\ startRes = "none"
    /\ resolved = "none"
    /\ checks = << >>
    /\ nSleep = 0
    /\ nFinish = 0
    /\ auxStarts = [m \in Modules |-> 0]
    /\ auxStops = [m \in Modules |-> 0]
    /\ auxCtorRes = [m \in Modules |-> "none"]
    /\ auxStartRes = [m \in Modules |-> "none"]
    /\ stopRes = << >>
    /\ finishRes = "none"
    /\ exit_branch = "none"
    /\ last = [op |-> "none", who |-> 0, res |-> "None"]

Init ==
    /\ pc = "prepare"
    /\ config \in [package : PackageNames \cup {NoPackage},
                   category : Categories,
                   file_type : FileTypes,
                   options : {Text(RunOptions)},
                   timeout : 1 .. MaxTimeout]
    /\ options = EmptyDict
    /\ warnings = 0
    /\ package = NoPackage
    /\ package_name = << >>
    /\ subclasses = << >>
    /\ idx = 0
    /\ aux = 0
    /\ aux_enabled = << >>
    /\ time_counter = 0
    /\ pending = "none"
    /\ exc = NoExc
    /\ success = FALSE
    /\ error = << >>
    /\ reported = NoReport
    /\ nReport = 0
    /\ nPackStart = 0
    /\ startRes = "none"
    /\ resolved = "none"
    /\ checks = << >>
    /\ nSleep = 0
    /\ nFinish = 0
    /\ auxStarts = [m \in Modules |-> 0]
    /\ auxStops = [m \in Modules |-> 0]
    /\ auxCtorRes = [m \in Modules |-> "none"]
    /\ auxStartRes = [m \in Modules |-> "none"]
    /\ stopRes = << >>
    /\ finishRes = "none"
    /\ exit_branch = "none"
    /\ last = [op |-> "none", who |-> 0, res |-> "None"]

\* ----------------------------------------------------------------- actions
\* run(): self.prepare()
Prepare ==
    /\ pc = "prepare"
    /\ \E o \in PrepareOutcomes :
         /\ last' = Call("prepare", 0, o)
         /\ IF Returned(o)
              THEN pc' = "select" /\ exc' = exc
              ELSE Escape(o)
    /\ UNCHANGED <<config, progVars, histVars, success, error, reported,
                   nReport>>

\* run(), lines 88-112: pick the package name, automatically when the
\* configuration names none.  choose_package() is an external lookup: its
\* result is drawn from the package names and None.
SelectPackage ==
    /\ pc = "select"
    /\ \E chosen \in PackageNames \cup {NoPackage} :
         /\ package' =
               IF config.package = NoPackage
                 THEN IF config.category = "file"
                        THEN chosen
                        ELSE "default_browser"
                 ELSE config.package
         /\ IF package' = NoPackage
               THEN /\ Escape(CuckooError(NoValidPackageMsg(config.file_type)))
                    /\ resolved' = "NoPackage"
                    /\ package_name' = package_name
               ELSE /\ package_name' = PackageName(package')
                    /\ pc' = "import"
                    /\ UNCHANGED <<exc, resolved>>
    /\ UNCHANGED <<config, options, warnings, subclasses, idx, aux, aux_enabled,
            time_counter, pending, nPackStart, startRes, checks, nSleep,
            nFinish, finishRes, auxStarts, auxCtorRes, auxStartRes, auxStops,
            stopRes, exit_branch, success, error, reported, nReport, last>>

\* run(), lines 114-119: __import__(package_name); an ImportError aborts.
ImportPackage ==
    /\ pc = "import"
    /\ \E imported \in BOOLEAN :
         IF imported
           THEN /\ pc' = "select_class"
                /\ UNCHANGED <<exc, resolved>>
           ELSE /\ Escape(CuckooError(UnableToImportMsg(package_name)))
                /\ resolved' = "ImportError"
    /\ UNCHANGED <<config, warnings, progVars, nPackStart, startRes, checks, nSleep,
            nFinish, finishRes, auxStarts, auxCtorRes, auxStartRes, auxStops,
            stopRes, exit_branch, success, error, reported, nReport, last>>

\* run(), lines 121-128: Package.__subclasses__()[0]; an empty list raises
\* IndexError, which aborts.
SelectClass ==
    /\ pc = "select_class"
    /\ \E nSub \in 0 .. 1 :
         IF nSub > 0
           THEN /\ pc' = "get_options"
                /\ resolved' = "ok"
                /\ exc' = exc
           ELSE /\ Escape(CuckooError(
                      UnableToSelectMsg(package_name,
                                        <<"list index out of range">>)))
                /\ resolved' = "IndexError"
    /\ UNCHANGED <<config, warnings, progVars, nPackStart, startRes, checks, nSleep,
            nFinish, finishRes, auxStarts, auxCtorRes, auxStartRes, auxStops,
            stopRes, exit_branch, success, error, reported, nReport, last>>

\* run(), line 131: the argument self.get_options() is evaluated.
GetOptions ==
    /\ pc = "get_options"
    /\ options' = get_options(config.options).options
    /\ warnings' = warnings + get_options(config.options).warnings
    /\ pc' = "construct"
    /\ UNCHANGED <<config, package, package_name, subclasses, idx, aux,
            aux_enabled, time_counter, pending, exc, success, error, reported,
            nReport, nPackStart, startRes, resolved, checks, nSleep, nFinish,
            finishRes, auxStarts, auxCtorRes, auxStartRes, auxStops, stopRes,
            exit_branch, last>>

\* run(), lines 130-145: pack = package_class(self.get_options()), then the
\* auxiliary modules are imported (a failed import only skips the module):
\* n classes end up visible in Auxiliary.__subclasses__().
Construct ==
    /\ pc = "construct"
    /\ \E o \in ConstructOutcomes, n \in 0 .. MaxAux :
         /\ last' = Call("construct", 0, o)
         /\ IF Returned(o)
              THEN /\ subclasses' = [i \in 1 .. n |-> i]
                   /\ aux_enabled' = << >>
                   /\ idx' = 1
                   /\ pc' = "aux_start"
                   /\ exc' = exc
              ELSE /\ Escape(o)
                   /\ UNCHANGED <<subclasses, aux_enabled, idx>>
    /\ UNCHANGED <<config, options, package, package_name, aux, time_counter,
            pending, histVars, success, error, reported, nReport>>

\* Variant: no except clauses around module() and aux.start().
AuxInFlightUncaught(body) == IF Returned(body) THEN NoExc ELSE body

\* lines 154-161: the exception still in flight after the except clauses
\* of the auxiliary loop (both clauses log and `continue`).
AuxInFlight(body) ==
    IF Returned(body) \/ IsException(body) THEN NoExc ELSE body

\* run(), lines 149-165: one iteration of the loop over the auxiliary
\* classes.  The finally clause runs on every path out of the try block:
\* it reads `aux` (raising UnboundLocalError, which replaces any exception
\* in flight, when no module() call has bound it yet) and appends it.
AuxStart ==
    /\ pc = "aux_start"
    /\ idx <= Len(subclasses)
    /\ \E c \in AuxConstructOutcomes, s \in AuxStartOutcomes :
         LET module == subclasses[idx]
             \* `aux` after the try body: rebound only when module() returned
             bound == IF Returned(c) THEN module ELSE aux
             \* the outcome of the try body
             body == IF Returned(c) THEN s ELSE c
             flight == AuxInFlight(body)
         IN  /\ aux' = bound
             /\ auxStarts' =
                  IF Returned(c)
                    THEN [auxStarts EXCEPT ![module] = @ + 1]
                    ELSE auxStarts
             /\ auxCtorRes' =
                  [auxCtorRes EXCEPT ![module] = Call("ctor", module, c).res]
             /\ auxStartRes' =
                  IF Returned(c)
                    THEN [auxStartRes EXCEPT
                            ![module] = Call("start", module, s).res]
                    ELSE auxStartRes
             /\ last' = IF Returned(c) THEN Call("aux_start", module, s)
                                       ELSE Call("aux_construct", module, c)
             /\ IF bound = 0
                  THEN \* handler or finally reads the unbound local
                       /\ Escape(UnboundAux)
                       /\ UNCHANGED <<aux_enabled, idx>>
                  ELSE /\ aux_enabled' = Append(aux_enabled, bound)
                       /\ IF flight = NoExc
                            THEN /\ idx' = idx + 1
                                 /\ UNCHANGED <<pc, exc>>
                            ELSE /\ Escape(flight)
                                 /\ idx' = idx
    /\ UNCHANGED <<config, options, warnings, package, package_name, subclasses,
            time_counter, pending, nPackStart, startRes, resolved, checks,
            nSleep, nFinish, finishRes, auxStops, stopRes, exit_branch,
            success, error, reported, nReport>>

\* Variant: `except Exception` listed first, so "not implemented" and the
\* package's own error are wrapped like any other exception.
StartFailureSameMsg(o) ==
    IF IsException(o)
      THEN CuckooError(StartUnhandledMsg(package_name, o))
      ELSE o

\* run(), lines 167-182: pack.start(self.target).  Each kind of failure is
\* re-raised as a CuckooError with its own message; a normal return (the
\* value is ignored) enters the poll loop with time_counter = 0.
StartFailure(o) ==
    IF o.type = "NotImplementedError"
      THEN CuckooError(NoRunFunctionMsg(package_name))
      ELSE IF o.type = "CuckooPackageError"
        THEN CuckooError(StartRaisedMsg(package_name, o))
        ELSE IF IsException(o)
          THEN CuckooError(StartUnhandledMsg(package_name, o))
          ELSE o

\* Variant: a failure of start() is logged and not raised again.
StartOkOrLogged(o) == Returned(o) \/ IsException(o)

\* lines 169-170: pack.start() left the try statement without an exception.
StartOk(o) == Returned(o)

\* Variant: the auxiliaries are stopped when start() fails.
PackStartCleansUp ==
    /\ pc = "aux_start"
    /\ idx > Len(subclasses)
    /\ \E o \in PackStartOutcomes :
         /\ last' = Call("pack_start", 0, o)
         /\ nPackStart' = nPackStart + 1
         /\ startRes' = last'.res
         /\ IF StartOk(o)
              THEN /\ time_counter' = 0
                   /\ pc' = "poll"
                   /\ UNCHANGED <<exc, idx>>
              ELSE /\ exc' = StartFailure(o)
                   /\ pc' = "aux_stop"
                   /\ idx' = 1
                   /\ time_counter' = time_counter
    /\ UNCHANGED <<config, options, warnings, package, package_name, subclasses, aux,
            aux_enabled, pending, resolved, checks, nSleep, nFinish,
            finishRes, auxStarts, auxCtorRes, auxStartRes, auxStops, stopRes,
            exit_branch, success, error, reported, nReport>>

PackStart ==
    /\ pc = "aux_start"
    /\ idx > Len(subclasses)
    /\ \E o \in PackStartOutcomes :
         /\ last' = Call("pack_start", 0, o)
         /\ nPackStart' = nPackStart + 1
         /\ startRes' = last'.res
         /\ IF StartOk(o)
              THEN /\ time_counter' = 0
                   /\ pc' = "poll"
                   /\ exc' = exc
              ELSE /\ Escape(StartFailure(o))
                   /\ time_counter' = time_counter
    /\ UNCHANGED <<config, options, warnings, package, package_name, subclasses, idx,
            aux, aux_enabled, pending, resolved, checks, nSleep, nFinish,
            finishRes, auxStarts, auxCtorRes, auxStartRes, auxStops, stopRes,
            exit_branch, success, error, reported, nReport>>

\* Variant: the comparison is > instead of ==.
TimeoutHitAfter(counter) == counter > config.timeout

\* Variant: the counter is compared with the timeout plus one.
TimeoutHitLate(counter) == counter = config.timeout + 1

\* line 185: time_counter == int(self.config.timeout)
TimeoutHit(counter) == counter = config.timeout

\* Variant: the timeout break leaves the shutdown without finish().
PollTimeoutSkipsFinish ==
    /\ pc = "poll"
    /\ TimeoutHit(time_counter + 1)
    /\ time_counter' = time_counter + 1
    /\ exit_branch' = "timeout"
    /\ pc' = "aux_stop"
    /\ idx' = 1
    /\ UNCHANGED <<config, options, warnings, package, package_name, subclasses, aux,
            aux_enabled, pending, exc, success, error, reported, nReport,
            nPackStart, startRes, resolved, checks, nSleep, nFinish,
            finishRes, auxStarts, auxCtorRes, auxStartRes, auxStops, stopRes,
            last>>

\* run(), lines 183-187: an iteration that finds the counter at the timeout
\* breaks out of the loop before check() is called.
PollTimeout ==
    /\ pc = "poll"
    /\ TimeoutHit(time_counter + 1)
    /\ time_counter' = time_counter + 1
    /\ exit_branch' = "timeout"
    /\ pc' = "finish"
    /\ UNCHANGED <<config, options, warnings, package, package_name, subclasses, idx,
            aux, aux_enabled, pending, exc, success, error, reported, nReport,
            nPackStart, startRes, resolved, checks, nSleep, nFinish,
            finishRes, auxStarts, auxCtorRes, auxStartRes, auxStops, stopRes,
            last>>

\* Variant: the value returned by check() is not looked at.
AfterCheckIgnoresFalse(o) ==
    IF Returned(o) \/ IsException(o) THEN "none" ELSE "raise"

\* Variant: no except clause around check().
AfterCheckUncaught(o) ==
    IF Returned(o)
      THEN IF o.val = "False" THEN "break" ELSE "none"
      ELSE "raise"

\* What the try statement of lines 189-204 leaves for after its finally
\* clause: "break" when check() returned a false value, "raise" when the
\* exception is not caught by `except Exception`, else "none" (loop again).
AfterCheck(o) ==
    IF Returned(o)
      THEN IF o.val = "False" THEN "break" ELSE "none"
      ELSE IF IsException(o) THEN "none" ELSE "raise"

\* Variant: the sleep follows the try statement instead of being its
\* finally clause, so the break goes straight to finish().
PollCheckBreaksDirectly ==
    /\ pc = "poll"
    /\ ~TimeoutHit(time_counter + 1)
    /\ time_counter' = time_counter + 1
    /\ \E o \in CheckOutcomes :
         /\ last' = Call("check", 0, o)
         /\ checks' = Append(checks, last'.res)
         /\ exc' = IF AfterCheck(o) = "raise" THEN o ELSE exc
         /\ IF AfterCheck(o) = "break"
              THEN /\ pc' = "finish"
                   /\ exit_branch' = "requested"
                   /\ pending' = "none"
              ELSE /\ pc' = "sleep"
                   /\ exit_branch' = exit_branch
                   /\ pending' = AfterCheck(o)
    /\ UNCHANGED <<config, options, warnings, package, package_name, subclasses, idx,
            aux, aux_enabled, success, error, reported, nReport, nPackStart,
            startRes, resolved, nSleep, nFinish, finishRes, auxStarts,
            auxCtorRes, auxStartRes, auxStops, stopRes>>

\* run(), lines 183-204: an iteration below the timeout calls pack.check();
\* the finally clause (the sleep) comes next on every path.
PollCheck ==
    /\ pc = "poll"
    /\ ~TimeoutHit(time_counter + 1)
    /\ time_counter' = time_counter + 1
    /\ \E o \in CheckOutcomes :
         /\ last' = Call("check", 0, o)
         /\ checks' = Append(checks, last'.res)
         /\ pending' = AfterCheck(o)
         /\ exc' = IF AfterCheck(o) = "raise" THEN o ELSE exc
    /\ pc' = "sleep"
    /\ UNCHANGED <<config, options, warnings, package, package_name, subclasses, idx,
            aux, aux_enabled, success, error, reported, nReport, nPackStart,
            startRes, resolved, nSleep, nFinish, finishRes, auxStarts,
            auxCtorRes, auxStartRes, auxStops, stopRes, exit_branch>>

\* run(), lines 205-207: finally: time.sleep(1), then what the try statement
\* left pending: the break, the exception in flight, or the next iteration.
\* An exception raised by the sleep itself replaces both.
Sleep ==
    /\ pc = "sleep"
    /\ nSleep' = nSleep + 1
    /\ \E o \in SleepOutcomes :
         /\ last' = Call("sleep", 0, o)
         /\ IF ~Returned(o)
              THEN Escape(o) /\ exit_branch' = exit_branch
              ELSE IF pending = "raise"
                THEN Escape(exc) /\ exit_branch' = exit_branch
                ELSE IF pending = "break"
                  THEN /\ pc' = "finish"
                       /\ exit_branch' = "requested"
                       /\ exc' = exc
                  ELSE /\ pc' = "poll"
                       /\ UNCHANGED <<exit_branch, exc>>
    /\ pending' = "none"
    /\ UNCHANGED <<config, options, warnings, package, package_name, subclasses, idx,
            aux, aux_enabled, time_counter, success, error, reported, nReport,
            nPackStart, startRes, resolved, checks, nFinish, finishRes,
            auxStarts, auxCtorRes, auxStartRes, auxStops, stopRes>>

\* Variant: no except clause around pack.finish().
FinishUncaught(o) == Returned(o)

\* lines 209-215: pack.finish() returned, or raised an Exception that the
\* except clause logs and drops.
FinishContained(o) == Returned(o) \/ IsException(o)

\* run(), lines 209-215: pack.finish(); an Exception is logged and dropped.
Finish ==
    /\ pc = "finish"
    /\ nFinish' = nFinish + 1
    /\ \E o \in FinishOutcomes :
         /\ last' = Call("finish", 0, o)
         /\ finishRes' = last'.res
         /\ IF FinishContained(o)
              THEN /\ pc' = "aux_stop"
                   /\ idx' = 1
                   /\ exc' = exc
              ELSE /\ Escape(o)
                   /\ idx' = idx
    /\ UNCHANGED <<config, options, warnings, package, package_name, subclasses, aux,
            aux_enabled, time_counter, pending, success, error, reported,
            nReport, nPackStart, startRes, resolved, checks, nSleep,
            auxStarts, auxCtorRes, auxStartRes, auxStops, stopRes, exit_branch>>

\* Variant: no except clauses around aux.stop().
StopUncaught(o) == Returned(o)

\* lines 219-225: aux.stop() returned, or raised an Exception that one of
\* the two except clauses drops.
StopContained(o) == Returned(o) \/ IsException(o)

\* run(), lines 217-225: one iteration of the loop over aux_enabled:
\* aux.stop(); an Exception is dropped (logged unless "not implemented").
AuxStop ==
    /\ pc = "aux_stop"
    /\ idx <= Len(aux_enabled)
    /\ aux' = aux_enabled[idx]
    /\ auxStops' = [auxStops EXCEPT ![aux_enabled[idx]] = @ + 1]
    /\ \E o \in AuxStopOutcomes :
         /\ last' = Call("aux_stop", aux_enabled[idx], o)
         /\ stopRes' = Append(stopRes, last'.res)
         /\ IF StopContained(o)
              THEN /\ idx' = idx + 1
                   /\ UNCHANGED <<pc, exc>>
              ELSE /\ Escape(o)
                   /\ idx' = idx
    /\ UNCHANGED <<config, options, warnings, package, package_name, subclasses,
            aux_enabled, time_counter, pending, success, error, reported,
            nReport, nPackStart, startRes, resolved, checks, nSleep, nFinish,
            finishRes, auxStarts, auxCtorRes, auxStartRes, exit_branch>>

\* Variant: the completion and `return True` sit inside the stop loop.
CompleteInsideLoop ==
    /\ pc = "aux_stop"
    /\ success' = TRUE
    /\ pc' = "report"
    /\ UNCHANGED <<config, progVars, histVars, exc, error, reported, nReport,
                   last>>

\* run(), lines 227-229 and __main__, line 239: self.complete() only logs,
\* run() returns True and __main__ stores it in success.
Complete ==
    /\ pc = "aux_stop"
    /\ idx > Len(aux_enabled)
    /\ success' = TRUE
    /\ pc' = "report"
    /\ UNCHANGED <<config, progVars, histVars, exc, error, reported, nReport,
                   last>>

\* Variant: the report is made at the end of the try and except-Exception
\* paths instead of in a finally clause.
MainExceptNoFinally ==
    /\ pc = "main_except"
    /\ error' = IF exc.type = "KeyboardInterrupt"
                  THEN KeyboardInterruptMsg
                  ELSE IF IsException(exc) THEN Str(exc) ELSE error
    /\ pc' = IF exc.type = "KeyboardInterrupt" THEN "done" ELSE "report"
    /\ UNCHANGED <<config, progVars, histVars, exc, success, reported,
                   nReport, last>>

\* __main__, lines 241-255: the except clauses around analyzer.run().
MainExcept ==
    /\ pc = "main_except"
    /\ error' = IF exc.type = "KeyboardInterrupt"
                  THEN KeyboardInterruptMsg
                  ELSE IF IsException(exc) THEN Str(exc) ELSE error
    /\ pc' = "report"
    /\ UNCHANGED <<config, progVars, histVars, exc, success, reported,
                   nReport, last>>

\* __main__, lines 258-261: finally: server.complete(success, error, ...).
Report ==
    /\ pc = "report"
    /\ nReport' = nReport + 1
    /\ reported' = [sent |-> TRUE, success |-> success, error |-> error]
    /\ pc' = "done"
    /\ UNCHANGED <<config, progVars, histVars, exc, success, error, last>>

Next ==
    \/ Prepare
    \/ SelectPackage
    \/ ImportPackage
    \/ SelectClass
    \/ GetOptions
    \/ Construct
    \/ AuxStart
    \/ PackStart
    \/ PollTimeout
    \/ PollCheck
    \/ Sleep
    \/ Finish
    \/ AuxStop
    \/ Complete
    \/ MainExcept
    \/ Report

Spec == Init /\ [][Next]_vars

\* get_options() on its own: the run is at line 131 with any option string
\* up to MaxOptLen characters (or none) in the configuration.
OptInit ==
    /\ pc = "get_options"
    /\ config \in [package : {"apk"},
                   category : {"file"},
                   file_type : FileTypes,
                   options : {NoOptions, Text(ExampleOptions)}
                               \cup {Text(s) : s \in OptStrings},
                   timeout : {1}]
    /\ options = EmptyDict
    /\ warnings = 0
    /\ package = "apk"
    /\ package_name = PackageName("apk")
    /\ subclasses = << >>
    /\ idx = 0
    /\ aux = 0
    /\ aux_enabled = << >>
    /\ time_counter = 0
    /\ pending = "none"
    /\ exc = NoExc
    /\ success = FALSE
    /\ error = << >>
    /\ reported = NoReport
    /\ nReport = 0
    /\ nPackStart = 0
    /\ startRes = "none"
    /\ resolved = "ok"
    /\ checks = << >>
    /\ nSleep = 0
    /\ nFinish = 0
    /\ auxStarts = [m \in Modules |-> 0]
    /\ auxStops = [m \in Modules |-> 0]
    /\ auxCtorRes = [m \in Modules |-> "none"]
    /\ auxStartRes = [m \in Modules |-> "none"]
    /\ stopRes = << >>
    /\ finishRes = "none"
    /\ exit_branch = "none"
    /\ last = [op |-> "prepare", who |-> 0, res |-> "None"]

OptSpec == OptInit /\ [][GetOptions]_vars

\* ------------------------------------------------------------ observations
Count(seq, m) == Cardinality({i \in 1 .. Len(seq) : seq[i] = m})
Contains(msg, fragment) == \E i \in 1 .. Len(msg) : msg[i] = fragment
NoneCalled(f) == \A m \in Modules : f[m] = 0
\* stop() has been called once for every entry of aux_enabled
StopsAttempted == \A m \in Modules : auxStops[m] = Count(aux_enabled, m)
Aborted == pc \in {"main_except", "report", "done"} /\ exc # NoExc
AllTrue == \A i \in 1 .. Len(checks) : checks[i] = "True"
NoFalse == \A i \in 1 .. Len(checks) : checks[i] # "False"
StartFailKinds == {"NotImplementedError", "CuckooPackageError", "Exception"}

\* ------------------------------------------------------------------ claims
\* C1: on every exit path server.complete() is called exactly once: at most
\* once in any state, exactly once when the process has ended, and the
\* process can always go on until it has ended.
C1_ReportExactlyOnce ==
    /\ nReport <= 1
    /\ reported.sent <=> nReport = 1
    /\ pc = "done" => nReport = 1
    /\ pc # "done" => ENABLED Next

\* C1 witness: an interruption during polling, reported once.
C1_Witness ==
    /\ pc = "done"
    /\ nReport = 1
    /\ exc.type = "KeyboardInterrupt"
    /\ Len(checks) >= 1

\* run() went through its whole sequence: the driver's start() returned, the
\* poll loop was left by one of its two breaks, finish() and a stop() for
\* every recorded auxiliary were called, and none of them was interrupted.
WholeSequence ==
    /\ startRes = "True"
    /\ exit_branch \in {"timeout", "requested"}
    /\ nFinish = 1
    /\ StopsAttempted
    /\ last.res # "KeyboardInterrupt"

\* C2: the report carries success=true exactly when run() went through its
\* whole sequence, and then the error message is empty.
C2_SuccessIffWholeSequence ==
    reported.sent =>
        /\ reported.success <=> WholeSequence
        /\ reported.success => reported.error = << >>

\* C2 witness: a successful report after a requested termination, with an
\* auxiliary stopped.
C2_Witness ==
    /\ reported.sent
    /\ reported.success
    /\ exit_branch = "requested"
    /\ \E m \in Modules : auxStops[m] >= 1

\* C3: a report with success=false always carries a non-empty error message.
C3_FailureHasMessage ==
    (reported.sent /\ ~reported.success) => reported.error # << >>

\* C4 as stated: with check() always true the loop is left by the timeout
\* after exactly N calls of check().
C4_Original ==
    (pc = "finish" /\ AllTrue) =>
        /\ exit_branch = "timeout"
        /\ Len(checks) = config.timeout

\* C4 amended: with check() always true the loop body is entered exactly N
\* times, check() is called in the first N-1 of them only, and the N-th
\* leaves through the timeout branch.
C4_Amended ==
    /\ (pc = "poll" /\ AllTrue) =>
          /\ time_counter < config.timeout
          /\ Len(checks) = time_counter
    /\ (pc = "finish" /\ AllTrue) =>
          /\ exit_branch = "timeout"
          /\ time_counter = config.timeout
          /\ Len(checks) = config.timeout - 1

\* C4 witness: timeout 3, two calls of check(), both true, loop left.
C4_Witness ==
    /\ pc = "finish"
    /\ config.timeout = 3
    /\ checks = <<"True", "True">>

\* C5: a false from check() on iteration k < N is the last call of check():
\* the loop is at iteration k, is never left by the timeout, and is left
\* through the "requested termination" break.
C5_FalseEndsLoop ==
    \A k \in 1 .. Len(checks) :
        checks[k] = "False" =>
            /\ k = Len(checks)
            /\ k < config.timeout
            /\ time_counter = k
            /\ pc # "poll"
            /\ exit_branch # "timeout"
            /\ pc \in {"finish", "aux_stop", "report", "done"} /\ exc = NoExc
                  => exit_branch = "requested"

\* C5 witness: timeout 3, true then false, loop left at iteration 2.
C5_Witness ==
    /\ pc = "finish"
    /\ config.timeout = 3
    /\ checks = <<"True", "False">>
    /\ exit_branch = "requested"

\* C6: an exception raised by check() neither ends the loop nor fails the
\* run: the iteration ends like one that returned true, the loop is left
\* only by the timeout after the same N-1 calls or by a later false, and the
\* only thing that can still fail the run is an interruption.
C6_CheckFaultContained ==
    (\E k \in 1 .. Len(checks) : checks[k] = "Exception") =>
        /\ (pc = "sleep" /\ checks[Len(checks)] = "Exception")
              => pending = "none"
        /\ pc \in {"poll", "sleep"} => Len(checks) < config.timeout
        /\ pc \in {"finish", "aux_stop"} =>
              \/ /\ exit_branch = "timeout"
                 /\ NoFalse
                 /\ Len(checks) = config.timeout - 1
                 /\ time_counter = config.timeout
              \/ /\ exit_branch = "requested"
                 /\ checks[Len(checks)] = "False"
        /\ exc # NoExc => exc.type = "KeyboardInterrupt"
        /\ (reported.sent /\ exc = NoExc) => reported.success

\* C6 witness: check() raised, then returned true, the timeout ended the
\* loop and the run was reported successful.
C6_Witness ==
    /\ reported.sent
    /\ reported.success
    /\ checks = <<"Exception", "True">>
    /\ exit_branch = "timeout"

\* C7: when the driver name does not resolve (import error, or no driver
\* class visible) the run aborts before any auxiliary is constructed or
\* started and before the driver's start(); the report has success=false
\* and an error message containing the attempted name.
C7_UnresolvedAborts ==
    resolved \in {"ImportError", "IndexError"} =>
        /\ Aborted
        /\ package \in PackageNames
        /\ NoneCalled(auxStarts)
        /\ aux_enabled = << >>
        /\ last.op = "prepare"
        /\ nPackStart = 0
        /\ reported.sent =>
              /\ ~reported.success
              /\ Contains(reported.error, package)

\* C7 witness: the import of "apk" failed and the failure was reported.
C7_Witness ==
    /\ reported.sent
    /\ resolved = "ImportError"
    /\ package = "apk"

\* C8: each of the three failures of the driver's start() aborts the run
\* with success=false and without any poll iteration, and the message
\* reported is one that no other kind of failure produces.
C8_StartFailuresDistinct ==
    startRes \in StartFailKinds =>
        /\ Aborted
        /\ exc.type = "CuckooError"
        /\ checks = << >>
        /\ time_counter = 0
        /\ nSleep = 0
        /\ reported.sent =>
              /\ ~reported.success
              /\ reported.error = Str(exc)
              /\ \A o \in PackStartOutcomes :
                    (o.type \in StartFailKinds /\ o.type # startRes)
                        => reported.error # Str(StartFailure(o))

\* C8 witness: start() signalled "not implemented" and this was reported.
C8_Witness ==
    /\ reported.sent
    /\ startRes = "NotImplementedError"

\* C9: finish() is called once when the poll loop was left by the timeout
\* or by a false from check(), at most once ever, and never when selection
\* or the driver's start() failed.
C9_FinishOnce ==
    /\ nFinish <= 1
    /\ (exit_branch # "none" /\ pc # "finish") => nFinish = 1
    /\ pc = "finish" => exit_branch # "none"
    /\ (startRes \notin {"none", "True"} \/ resolved \notin {"none", "ok"})
          => nFinish = 0

\* C9 witness: the loop was left by the timeout and finish() was called.
C9_Witness ==
    /\ pc = "done"
    /\ exit_branch = "timeout"
    /\ nFinish = 1

\* C10: finish() is called before any auxiliary's stop(); the report is sent
\* only after finish() and every recorded auxiliary's stop() were called,
\* or after an exception abandoned them; nothing is called after the report.
C10_ShutdownOrder ==
    /\ [](reported.sent => pc = "done")
    /\ [][/\ auxStops' # auxStops => (nFinish = 1 /\ nFinish' = 1)
          /\ nFinish' # nFinish => NoneCalled(auxStops)
          /\ (reported'.sent /\ ~reported.sent) =>
                IF reported'.success
                  THEN nFinish = 1 /\ StopsAttempted
                  ELSE exc # NoExc
          /\ reported.sent => UNCHANGED <<histVars, last>>]_vars

\* C10 witness: a report sent after finish() and two stop() calls.
C10_Witness ==
    /\ reported.sent
    /\ nFinish = 1
    /\ \E m \in Modules : auxStops[m] >= 1
    /\ Len(aux_enabled) >= 2
    /\ StopsAttempted

\* An upper bound on the number of steps the run still has to take.
StepsLeft ==
    LET shutdown == Len(aux_enabled) + 3
        polling == 2 * MaxTimeout + 1 + MaxAux + 3
    IN  CASE pc = "done" -> 0
          [] pc = "report" -> 1
          [] pc = "main_except" -> 2
          [] pc = "aux_stop" -> (Len(aux_enabled) + 1 - idx) + 2
          [] pc = "finish" -> shutdown
          [] pc = "sleep" ->
                2 * (config.timeout - time_counter) + 1 + shutdown
          [] pc = "poll" -> 2 * (config.timeout - time_counter) + shutdown
          [] pc = "aux_start" ->
                polling + 2 * (Len(subclasses) + 1 - idx) + 1
          [] pc = "construct" -> polling + 2 * MaxAux + 4
          [] pc = "get_options" -> polling + 2 * MaxAux + 5
          [] pc = "select_class" -> polling + 2 * MaxAux + 6
          [] pc = "import" -> polling + 2 * MaxAux + 7
          [] pc = "select" -> polling + 2 * MaxAux + 8
          [] pc = "prepare" -> polling + 2 * MaxAux + 9

\* C14: the run terminates: the poll loop never goes beyond N iterations
\* (at most N-1 calls of check()); every step brings the run closer to its
\* end (a non-negative bound on the steps left decreases), a step is always
\* possible until the process has ended, and it has ended only with the
\* report sent.
C14_Terminates ==
    /\ [](/\ time_counter <= config.timeout
          /\ Len(checks) < config.timeout
          /\ StepsLeft >= 0
          /\ pc = "done" => reported.sent
          /\ pc # "done" => ENABLED Next)
    /\ [][StepsLeft' < StepsLeft]_vars

\* C14 witness: the longest poll (N = MaxTimeout, every check() true or
\* raising) followed by the report.
C14_Witness ==
    /\ pc = "done"
    /\ reported.sent
    /\ config.timeout = MaxTimeout
    /\ time_counter = MaxTimeout
    /\ Len(checks) = MaxTimeout - 1
    /\ checks[1] = "Exception"


Faults == {"NotImplementedError", "Exception"}
\* the auxiliaries whose start() returned normally
StartedOk == {m \in Modules : auxStartRes[m] = "None"}
Recorded == {aux_enabled[i] : i \in 1 .. Len(aux_enabled)}
OnlyInterrupted == exc # NoExc => exc.type = "KeyboardInterrupt"

\* C11: the auxiliaries recorded for shutdown are exactly those whose
\* start() returned normally, and stop() is called once on an auxiliary if
\* and only if its start() returned normally.
C11_StopIffStarted ==
    /\ nPackStart >= 1 => Recorded = StartedOk
    /\ \A m \in Modules :
          /\ auxStops[m] <= 1
          /\ auxStops[m] >= 1 => m \in StartedOk
          /\ (reported.sent /\ reported.success) =>
                (auxStops[m] = 1 <=> m \in StartedOk)

\* C12: an exception raised by one auxiliary's stop() does not end the stop
\* loop and does not fail the run: every recorded auxiliary still has
\* stop() called, and the report is success=true with an empty error.
C12_StopFaultContained ==
    (\E i \in 1 .. Len(stopRes) : stopRes[i] \in Faults) =>
        /\ OnlyInterrupted
        /\ pc = "aux_stop" => Len(stopRes) = idx - 1
        /\ (pc \in {"report", "done"} /\ exc = NoExc) =>
              /\ success
              /\ Len(stopRes) = Len(aux_enabled)
              /\ StopsAttempted
        /\ (reported.sent /\ exc = NoExc) =>
              /\ reported.success
              /\ reported.error = << >>

\* C12 witness: the first stop() raised, the second auxiliary was stopped
\* all the same and the run was reported successful.
C12_Witness ==
    /\ reported.sent
    /\ reported.success
    /\ Len(stopRes) = 2
    /\ stopRes[1] = "Exception"
    /\ auxStops[1] = 1
    /\ auxStops[2] = 1

\* C13: an exception raised by one auxiliary's start() is not fatal: it is
\* never the exception that ends the run, the loop goes on to every
\* remaining auxiliary class (instantiating it, and calling start() when
\* the instantiation returned), and the driver's start() follows unless an
\* interruption ends the run first.
C13_AuxStartFaultContained ==
    \A m \in Modules :
        auxStartRes[m] \in Faults =>
            /\ exc.type \notin Faults \cup {"UnboundLocalError"}
            /\ pc = "aux_start" => idx > m
            /\ nPackStart >= 1 =>
                  \A k \in 1 .. Len(subclasses) :
                      /\ auxCtorRes[k] # "none"
                      /\ auxCtorRes[k] = "None" => auxStarts[k] = 1
            /\ pc \in {"poll", "sleep", "finish", "aux_stop"}
                  => nPackStart = 1
            /\ (pc # "aux_start" /\ nPackStart = 0)
                  => exc.type = "KeyboardInterrupt"

\* C13 witness: the first auxiliary's start() was not implemented, the
\* second was started, the driver was started and the run succeeded.
C13_Witness ==
    /\ reported.sent
    /\ reported.success
    /\ auxStartRes[1] = "NotImplementedError"
    /\ auxStarts[2] = 1
    /\ nPackStart = 1

\* C15: an exception raised by finish() is not fatal: the stop loop follows,
\* every recorded auxiliary has stop() called, and the report is
\* success=true with an empty error.
C15_FinishFaultContained ==
    finishRes \in Faults =>
        /\ OnlyInterrupted
        /\ pc \in {"aux_stop", "main_except", "report", "done"}
        /\ (pc \in {"report", "done"} /\ exc = NoExc) =>
              /\ success
              /\ Len(stopRes) = Len(aux_enabled)
              /\ StopsAttempted
        /\ (reported.sent /\ exc = NoExc) =>
              /\ reported.success
              /\ reported.error = << >>

\* C15 witness: finish() raised, an auxiliary was stopped afterwards and
\* the run was reported successful.
C15_Witness ==
    /\ reported.sent
    /\ reported.success
    /\ finishRes = "Exception"
    /\ Len(stopRes) >= 1

\* C17: an exception raised by an auxiliary's constructor is contained: it
\* does not end the run, the driver's start() still follows (unless an
\* interruption ends the run first), every remaining class is instantiated,
\* and no auxiliary is recorded twice or in place of the failed one.
C17_AuxCtorFaultContained ==
    \A m \in Modules :
        auxCtorRes[m] \in Faults =>
            /\ OnlyInterrupted \/ exc.type = "CuckooError"
            /\ m \notin Recorded
            /\ \A k \in Modules : Count(aux_enabled, k) <= 1
            /\ (pc # "aux_start" /\ nPackStart = 0)
                  => exc.type = "KeyboardInterrupt"

\* C18: every auxiliary start() precedes the driver's start(), which is
\* called at most once; check() is called only after the driver's start()
\* returned normally and never after finish().
C18_StartupOrder ==
    [][/\ (auxStarts' # auxStarts \/ auxCtorRes' # auxCtorRes)
            => (nPackStart = 0 /\ nPackStart' = 0)
       /\ nPackStart' <= 1
       /\ nPackStart' # nPackStart => (checks' = << >> /\ nFinish' = 0)
       /\ checks' # checks =>
            (startRes = "True" /\ nFinish = 0 /\ nFinish' = 0)]_vars

\* C18 witness: an auxiliary started, the driver started, check() called and
\* finish() called.
C18_Witness ==
    /\ auxStarts[1] = 1
    /\ nPackStart = 1
    /\ Len(checks) >= 1
    /\ nFinish = 1

\* C19 as stated: no suspension follows the check() that ends the loop, so
\* the suspensions number the poll iterations minus one.
C19_Original ==
    pc = "finish" => nSleep = time_counter - 1

\* C19 amended: a suspension follows every call of check(), the one that
\* returns false included: the suspensions number the calls of check(),
\* that is the poll iterations minus one when the timeout ends the loop and
\* the poll iterations when a false from check() ends it.
C19_Amended ==
    /\ nSleep = IF pc = "sleep" THEN Len(checks) - 1 ELSE Len(checks)
    /\ (pc = "finish" /\ exit_branch = "timeout")
          => nSleep = time_counter - 1
    /\ (pc = "finish" /\ exit_branch = "requested")
          => nSleep = time_counter

\* C19 witness: true then false from check(), two suspensions.
C19_Witness ==
    /\ pc = "finish"
    /\ exit_branch = "requested"
    /\ checks = <<"True", "False">>
    /\ nSleep = 2

\* C20: when the driver's start() failed, no auxiliary's stop() is called:
\* the report with success=false is sent with every started auxiliary
\* still running.
C20_NoStopAfterStartFailure ==
    startRes \in StartFailKinds =>
        /\ NoneCalled(auxStops)
        /\ stopRes = << >>
        /\ reported.sent => ~reported.success

\* C20 witness: an auxiliary was started, the driver's start() raised, and
\* the failure was reported without any stop().
C20_Witness ==
    /\ reported.sent
    /\ startRes = "Exception"
    /\ auxStartRes[1] = "None"
    /\ Recorded = {1}
    /\ NoneCalled(auxStops)


\* The option format, stated on positions of the string.
IsBlank(x) == \A i \in 1 .. Len(x) : x[i] = " "
Trimmed(x) ==
    IF IsBlank(x)
      THEN << >>
      ELSE LET inked == {i \in 1 .. Len(x) : x[i] # " "}
               lo == CHOOSE i \in inked : \A j \in inked : i <= j
               hi == CHOOSE i \in inked : \A j \in inked : j <= i
           IN  SubSeq(x, lo, hi)
\* the tokens of t: the maximal comma-free stretches, as <<first, last>>
TokenSpans(t) ==
    {sp \in (1 .. Len(t) + 1) \X (0 .. Len(t)) :
        /\ sp[1] <= sp[2] + 1
        /\ sp[1] = 1 \/ t[sp[1] - 1] = ","
        /\ sp[2] = Len(t) \/ t[sp[2] + 1] = ","
        /\ \A i \in sp[1] .. sp[2] : t[i] # ","}
EqualSigns(tok) == {i \in 1 .. Len(tok) : tok[i] = "="}
WellFormed(tok) == Cardinality(EqualSigns(tok)) = 1
KeyOf(tok) ==
    LET e == CHOOSE i \in EqualSigns(tok) : TRUE
    IN  Trimmed(SubSeq(tok, 1, e - 1))
ValueOf(tok) ==
    LET e == CHOOSE i \in EqualSigns(tok) : TRUE
    IN  Trimmed(SubSeq(tok, e + 1, Len(tok)))

\* C16: get_options() never raises and returns the mapping of the
\* well-formed tokens (exactly one '=') of the comma-separated string, key
\* and value trimmed, a later token replacing an earlier one with the same
\* key; every malformed token gives one warning and nothing else; an empty
\* or absent string gives the empty mapping without a warning; the example
\* 'a=1, b = 2 ,bad' gives {a: '1', b: '2'} and one warning.
C16_GetOptions ==
    pc = "construct" =>
        LET t == Trimmed(config.options.text)
            tok(sp) == SubSeq(t, sp[1], sp[2])
            good == {sp \in TokenSpans(t) : WellFormed(tok(sp))}
            bad == TokenSpans(t) \ good
            lastOf(k) ==
                CHOOSE sp \in good :
                    /\ KeyOf(tok(sp)) = k
                    /\ \A other \in good :
                          KeyOf(tok(other)) = k => other[1] <= sp[1]
        IN  /\ exc = NoExc
            /\ IF ~config.options.present \/ config.options.text = << >>
                 THEN options = EmptyDict /\ warnings = 0
                 ELSE /\ DOMAIN options = {KeyOf(tok(sp)) : sp \in good}
                      /\ \A k \in DOMAIN options :
                            options[k] = ValueOf(tok(lastOf(k)))
                      /\ warnings = Cardinality(bad)
            /\ config.options = Text(ExampleOptions) =>
                  /\ DOMAIN options = {<<"a">>, <<"b">>}
                  /\ options[<<"a">>] = <<"1">>
                  /\ options[<<"b">>] = <<"2">>
                  /\ warnings = 1

\* C16 witness: the example string parsed, with its one warning.
C16_Witness ==
    /\ pc = "construct"
    /\ config.options = Text(ExampleOptions)
    /\ DOMAIN options = {<<"a">>, <<"b">>}
    /\ warnings = 1

=============================================================================
